---- MODULE Spec2Model ----
(***************************************************************************)
(* SimpleDB (src/simpledb.py): the normalizer SimpleXDB._parse_message /   *)
(* _format_timestamp, the row loops get_contact_messages and               *)
(* get_group_messages, and the renderers of ChatExporter.                  *)
(*                                                                         *)
(* Python strings are sequences of one-character strings, so that split,   *)
(* replace, slicing and upper() are computed character by character.       *)
(* Python values of varying type are tagged records [k |-> kind, ...].     *)
(***************************************************************************)
EXTENDS Integers, Sequences, FiniteSets, TLC

VARIABLES db_rows, pc, call, messages, file, raised, esc_in, esc_out

vars == <<db_rows, pc, call, messages, file, raised, esc_in, esc_out>>

(***************************************************************************)
(* Bounds                                                                  *)
(***************************************************************************)
\* longest input string given to _escape_html in SpecEscape
MaxStrLen == 3
\* most rows of the chat in Spec
MaxRows == 2
\* most rows of the chat in SpecDates
MaxDateRows == 3
\* most rows of the chat in SpecQuote
MaxQuoteRows == 2
\* most rows of the chat in SpecJson
MaxJsonRows == 2
\* most rows of the chat in SpecMedia
MaxMediaRows == 1

(***************************************************************************)
(* Strings                                                                 *)
(***************************************************************************)
RECURSIVE Contains(_, _)
\* c in s
Contains(s, c) ==
    IF s = <<>> THEN FALSE
    ELSE IF Head(s) = c THEN TRUE ELSE Contains(Tail(s), c)

RECURSIVE BeforeFirst(_, _)
\* s.split(c)[0]
BeforeFirst(s, c) ==
    IF s = <<>> THEN <<>>
    ELSE IF Head(s) = c THEN <<>>
    ELSE <<Head(s)>> \o BeforeFirst(Tail(s), c)

RECURSIVE AfterFirst(_, _)
\* the rest of s after the first c (empty when c is not in s)
AfterFirst(s, c) ==
    IF s = <<>> THEN <<>>
    ELSE IF Head(s) = c THEN Tail(s)
    ELSE AfterFirst(Tail(s), c)

RECURSIVE Split(_, _)
\* s.split(c): always at least one piece
Split(s, c) ==
    IF ~Contains(s, c) THEN <<s>>
    ELSE <<BeforeFirst(s, c)>> \o Split(AfterFirst(s, c), c)

RECURSIVE Replace(_, _, _)
\* s.replace(c, r) for a one-character c: occurrences of c cannot overlap,
\* so the two halves of s are replaced apart
Replace(s, c, r) ==
    IF Len(s) <= 1 THEN (IF s = <<c>> THEN r ELSE s)
    ELSE LET half == Len(s) \div 2
         IN  Replace(SubSeq(s, 1, half), c, r) \o Replace(SubSeq(s, half + 1, Len(s)), c, r)

\* c * n
Repeat(c, n) == [i \in 1..n |-> c]

\* s[:n]
Slice(s, n) == SubSeq(s, 1, IF Len(s) < n THEN Len(s) ELSE n)

LowerCase == <<"a","b","c","d","e","f","g","h","i","j","k","l","m",
               "n","o","p","q","r","s","t","u","v","w","x","y","z">>
UpperCase == <<"A","B","C","D","E","F","G","H","I","J","K","L","M",
               "N","O","P","Q","R","S","T","U","V","W","X","Y","Z">>

\* s.upper()
Upper(s) ==
    [i \in 1..Len(s) |->
        IF \E j \in 1..26 : LowerCase[j] = s[i]
        THEN UpperCase[CHOOSE j \in 1..26 : LowerCase[j] = s[i]]
        ELSE s[i]]

Digits == <<"0","1","2","3","4","5","6","7","8","9">>

IsDigit(c) == \E j \in 1..10 : Digits[j] = c

DigitVal(c) == (CHOOSE j \in 1..10 : Digits[j] = c) - 1

AllDigits(s) == \A i \in 1..Len(s) : IsDigit(s[i])

RECURSIVE Num(_)
\* int(s) for a string of digits
Num(s) ==
    IF s = <<>> THEN 0
    ELSE 10 * Num(SubSeq(s, 1, Len(s) - 1)) + DigitVal(s[Len(s)])

RECURSIVE IntStr(_)
\* str(n) for n >= 0
IntStr(n) ==
    IF n < 10 THEN <<Digits[n + 1]>>
    ELSE IntStr(n \div 10) \o <<Digits[(n % 10) + 1]>>

\* '%02d' % n
Pad2(n) == <<Digits[(n \div 10) + 1], Digits[(n % 10) + 1]>>

\* '%04d' % n
Pad4(n) == Pad2(n \div 100) \o Pad2(n % 100)

(***************************************************************************)
(* Python values                                                           *)
(***************************************************************************)
PyNone == [k |-> "none"]
PyStr(s) == [k |-> "str", s |-> s]
PyInt(n) == [k |-> "int", n |-> n]
PyBool(b) == [k |-> "bool", b |-> b]
\* a list of n elements
PyList(n) == [k |-> "list", n |-> n]

\* the keys the code looks up in a decoded object
DictKeys == {"rcvMsgContent", "sndMsgContent", "rcvGroupEvent", "msgContent", "type", "text"}

\* the dict holding exactly the keys ks; o[key] is read only for key in ks
PyDict(ks, o) == [k |-> "dict", keys |-> ks, o |-> o]

EmptyDict == PyDict({}, [x \in DictKeys |-> PyNone])

Dict1(key, v) == PyDict({key}, [x \in DictKeys |-> IF x = key THEN v ELSE PyNone])

Dict2(key1, v1, key2, v2) ==
    PyDict({key1, key2},
           [x \in DictKeys |-> IF x = key1 THEN v1 ELSE IF x = key2 THEN v2 ELSE PyNone])

\* bool(v)
Truthy(v) ==
    CASE v.k = "none" -> FALSE
      [] v.k = "str"  -> v.s # <<>>
      [] v.k = "int"  -> v.n # 0
      [] v.k = "bool" -> v.b
      [] v.k = "list" -> v.n > 0
      [] v.k = "dict" -> v.keys # {}
      [] v.k = "json" -> ~v.empty

\* str(v) for the values a timestamp column holds
Str(v) ==
    CASE v.k = "str" -> v.s
      [] v.k = "int" -> IntStr(v.n)

\* d.get(key, default) on a dict d
DictGet(d, key, default) == IF key \in d.keys THEN d.o[key] ELSE default

(***************************************************************************)
(* JSON text held in a column: a Python str, identified by what            *)
(* json.loads makes of it                                                  *)
(***************************************************************************)
\* the text of the JSON value v
JsonText(v) == [k |-> "json", empty |-> FALSE, ok |-> TRUE, v |-> v]
\* a non-empty text that is not JSON
BadJsonText == [k |-> "json", empty |-> FALSE, ok |-> FALSE, v |-> PyNone]
\* the empty string
EmptyJsonText == [k |-> "json", empty |-> TRUE, ok |-> FALSE, v |-> PyNone]

\* json.loads(t): [ok |-> FALSE] stands for the exception it raises
json_loads(t) == IF t.ok THEN [ok |-> TRUE, v |-> t.v] ELSE [ok |-> FALSE, v |-> PyNone]

(***************************************************************************)
(* datetime.fromisoformat and strftime('%Y-%m-%d %H:%M:%S')                *)
(***************************************************************************)
IsLeap(y) == (y % 4 = 0 /\ y % 100 # 0) \/ y % 400 = 0

DaysInMonth(y, m) ==
    IF m = 2 THEN (IF IsLeap(y) THEN 29 ELSE 28)
    ELSE IF m \in {4, 6, 9, 11} THEN 30 ELSE 31

NoDateTime == [ok |-> FALSE, y |-> 0, mo |-> 0, d |-> 0, h |-> 0, mi |-> 0, s |-> 0]

\* 'YYYY-MM-DD' with a valid calendar date
IsoDateOk(c) ==
    /\ Len(c) = 10
    /\ AllDigits(SubSeq(c, 1, 4)) /\ c[5] = "-"
    /\ AllDigits(SubSeq(c, 6, 7)) /\ c[8] = "-"
    /\ AllDigits(SubSeq(c, 9, 10))
    /\ Num(SubSeq(c, 1, 4)) >= 1
    /\ Num(SubSeq(c, 6, 7)) \in 1..12
    /\ Num(SubSeq(c, 9, 10)) \in 1..DaysInMonth(Num(SubSeq(c, 1, 4)), Num(SubSeq(c, 6, 7)))

\* '+HH:MM' or '-HH:MM'
IsoOffsetOk(t) ==
    /\ Len(t) = 6
    /\ t[1] \in {"+", "-"}
    /\ AllDigits(SubSeq(t, 2, 3)) /\ t[4] = ":" /\ AllDigits(SubSeq(t, 5, 6))
    /\ Num(SubSeq(t, 2, 3)) <= 23 /\ Num(SubSeq(t, 5, 6)) <= 59

\* the time of day without its offset
IsoClock(t) ==
    IF Len(t) >= 6 /\ SubSeq(t, Len(t) - 5, Len(t))[1] \in {"+", "-"}
    THEN SubSeq(t, 1, Len(t) - 6) ELSE t

\* 'HH', 'HH:MM' or 'HH:MM:SS', then an optional offset
IsoTimeOk(t) ==
    LET cl == IsoClock(t) IN
    /\ Len(cl) < Len(t) => IsoOffsetOk(SubSeq(t, Len(t) - 5, Len(t)))
    /\ Len(cl) \in {2, 5, 8}
    /\ AllDigits(SubSeq(cl, 1, 2)) /\ Num(SubSeq(cl, 1, 2)) <= 23
    /\ Len(cl) >= 5 => cl[3] = ":" /\ AllDigits(SubSeq(cl, 4, 5)) /\ Num(SubSeq(cl, 4, 5)) <= 59
    /\ Len(cl) >= 8 => cl[6] = ":" /\ AllDigits(SubSeq(cl, 7, 8)) /\ Num(SubSeq(cl, 7, 8)) <= 59

\* datetime.fromisoformat(c) for the extended forms; ok = FALSE is ValueError
fromisoformat(c) ==
    IF Len(c) < 10 \/ Len(c) = 11 \/ ~IsoDateOk(SubSeq(c, 1, 10)) THEN NoDateTime
    ELSE LET y  == Num(SubSeq(c, 1, 4))
             mo == Num(SubSeq(c, 6, 7))
             d  == Num(SubSeq(c, 9, 10))
         IN  IF Len(c) = 10
             THEN [ok |-> TRUE, y |-> y, mo |-> mo, d |-> d, h |-> 0, mi |-> 0, s |-> 0]
             ELSE LET t  == SubSeq(c, 12, Len(c))
                      cl == IsoClock(t)
                  IN  IF ~IsoTimeOk(t) THEN NoDateTime
                      ELSE [ok |-> TRUE, y |-> y, mo |-> mo, d |-> d,
                            h  |-> Num(SubSeq(cl, 1, 2)),
                            mi |-> IF Len(cl) >= 5 THEN Num(SubSeq(cl, 4, 5)) ELSE 0,
                            s  |-> IF Len(cl) >= 8 THEN Num(SubSeq(cl, 7, 8)) ELSE 0]

\* dt.strftime('%Y-%m-%d %H:%M:%S')
strftime(dt) ==
    Pad4(dt.y) \o <<"-">> \o Pad2(dt.mo) \o <<"-">> \o Pad2(dt.d) \o <<" ">>
    \o Pad2(dt.h) \o <<":">> \o Pad2(dt.mi) \o <<":">> \o Pad2(dt.s)

(***************************************************************************)
(* String literals of the source                                           *)
(***************************************************************************)
S_text == <<"t","e","x","t">>
S_image == <<"i","m","a","g","e">>
S_file == <<"f","i","l","e">>
S_voice == <<"v","o","i","c","e">>
S_video == <<"v","i","d","e","o">>
S_link == <<"l","i","n","k">>
S_ME == <<"M","E">>
S_CONTACT == <<"C","O","N","T","A","C","T">>
S_THEM == <<"T","H","E","M">>

(***************************************************************************)
(* SimpleXDB._format_timestamp                                             *)
(***************************************************************************)
\* _format_timestamp with '' returned by the except branch of lines 223-224
_format_timestamp_EmptyOnError(ts) ==
    IF ~Truthy(ts) THEN <<>>
    ELSE IF Contains(Str(ts), "T")
         THEN LET clean == IF Contains(Str(ts), ".")
                           THEN Split(Str(ts), ".")[1]
                           ELSE Replace(Str(ts), "Z", <<>>)
                  dt    == fromisoformat(clean)
              IN  IF dt.ok THEN strftime(dt) ELSE <<>>
         ELSE Str(ts)

_format_timestamp(ts) ==
    IF ~Truthy(ts) THEN <<>>
    ELSE IF Contains(Str(ts), "T")
         THEN LET clean == IF Contains(Str(ts), ".")
                           THEN Split(Str(ts), ".")[1]
                           ELSE Replace(Str(ts), "Z", <<>>)
                  dt    == fromisoformat(clean)
              IN  IF dt.ok THEN strftime(dt) ELSE Str(ts)
         ELSE Str(ts)

(***************************************************************************)
(* SimpleXDB._parse_message                                                *)
(***************************************************************************)
\* ParseContentType without the default of line 175: a failed step leaves None
ParseContentType_NoDefault(item_content) ==
    IF ~Truthy(item_content) THEN PyNone
    ELSE LET content == json_loads(item_content) IN
         IF ~content.ok THEN PyNone
         ELSE IF content.v.k # "dict" THEN PyNone
         ELSE LET msg_content ==
                      DictGet(content.v, "rcvMsgContent",
                              DictGet(content.v, "sndMsgContent", EmptyDict))
              IN  IF msg_content.k # "dict" THEN PyNone
                  ELSE LET inner == DictGet(msg_content, "msgContent", EmptyDict)
                       IN  IF inner.k # "dict" THEN PyNone
                           ELSE DictGet(inner, "type", PyStr(S_text))

\* lines 174-184: a step that raises leaves content_type at 'text'
ParseContentType(item_content) ==
    IF ~Truthy(item_content) THEN PyStr(S_text)
    ELSE LET content == json_loads(item_content) IN
         IF ~content.ok THEN PyStr(S_text)
         ELSE IF content.v.k # "dict" THEN PyStr(S_text)
         ELSE LET msg_content ==
                      DictGet(content.v, "rcvMsgContent",
                              DictGet(content.v, "sndMsgContent", EmptyDict))
              IN  IF msg_content.k # "dict" THEN PyStr(S_text)
                  ELSE LET inner == DictGet(msg_content, "msgContent", EmptyDict)
                       IN  IF inner.k # "dict" THEN PyStr(S_text)
                           ELSE DictGet(inner, "type", PyStr(S_text))

\* the Quote dict of lines 193-196
MkQuote(text, sent_by_me) == [k |-> "quote", text |-> text, sent_by_me |-> sent_by_me]

\* ParseQuote without the test of line 192: an empty text still makes a Quote
ParseQuote_KeepsEmpty(quoted_content, quoted_sent) ==
    IF ~Truthy(quoted_content) THEN PyNone
    ELSE LET qc == json_loads(quoted_content) IN
         IF ~qc.ok THEN PyNone
         ELSE IF qc.v.k # "dict" THEN PyNone
         ELSE MkQuote(DictGet(qc.v, "text", PyStr(<<>>)), Truthy(quoted_sent))

\* lines 186-198
ParseQuote(quoted_content, quoted_sent) ==
    IF ~Truthy(quoted_content) THEN PyNone
    ELSE LET qc == json_loads(quoted_content) IN
         IF ~qc.ok THEN PyNone
         ELSE IF qc.v.k # "dict" THEN PyNone
         ELSE LET quote_text == DictGet(qc.v, "text", PyStr(<<>>))
              IN  IF Truthy(quote_text)
                  THEN MkQuote(quote_text, Truthy(quoted_sent))
                  ELSE PyNone

\* SenderLabel with the name tried first: contact_name or ('ME' if item_sent else 'CONTACT')
SenderLabel_NameFirst(item_sent, contact_name) ==
    IF Truthy(contact_name) THEN contact_name.s
    ELSE IF Truthy(item_sent) THEN S_ME
    ELSE S_CONTACT

\* line 205: 'ME' if item_sent else (contact_name or 'CONTACT')
SenderLabel(item_sent, contact_name) ==
    IF Truthy(item_sent) THEN S_ME
    ELSE IF Truthy(contact_name) THEN contact_name.s
    ELSE S_CONTACT

\* lines 200-211; row is the 9-column prefix of a fetched row
_parse_message(row, contact_name) ==
    [id            |-> row.chat_item_id,
     timestamp     |-> _format_timestamp(row.item_ts),
     timestamp_raw |-> row.item_ts,
     sent          |-> Truthy(row.item_sent),
     sender        |-> SenderLabel(row.item_sent, contact_name),
     text          |-> IF Truthy(row.item_text) THEN row.item_text.s ELSE <<>>,
     deleted       |-> Truthy(row.item_deleted),
     edited        |-> IF Truthy(row.item_edited) THEN Truthy(row.item_edited) ELSE FALSE,
     content_type  |-> ParseContentType(row.item_content),
     quote         |-> ParseQuote(row.quoted_content, row.quoted_sent)]

\* bool(msg) of "if msg:" for the dict _parse_message returns
MsgTruthy(msg) == DOMAIN msg # {}

RECURSIVE ParseRows(_, _, _)
\* the loop of lines 134-139 / 163-168; group is TRUE in get_group_messages,
\* where the counterpart name is column 9 of the row
ParseRows(rows, contact_name, group) ==
    IF rows = <<>> THEN <<>>
    ELSE LET r   == Head(rows)
             msg == _parse_message(r, IF group THEN r.local_display_name ELSE contact_name)
         IN  (IF MsgTruthy(msg) THEN <<msg>> ELSE <<>>)
             \o ParseRows(Tail(rows), contact_name, group)

\* get_contact_messages returning the newest message first
get_contact_messages_NewestFirst(rows, contact_name) ==
    LET parsed == ParseRows(rows, contact_name, FALSE)
    IN  [i \in 1..Len(parsed) |-> parsed[Len(parsed) + 1 - i]]

get_contact_messages(rows, contact_name) == ParseRows(rows, contact_name, FALSE)

get_group_messages(rows) == ParseRows(rows, PyNone, TRUE)

(***************************************************************************)
(* The rows a chat can hold (columns of the SELECT of lines 117-132 and    *)
(* 144-161)                                                                *)
(***************************************************************************)
KnownTypes == {S_text, S_image, S_file, S_voice, S_video, S_link}

S_report == <<"r","e","p","o","r","t">>
S_Bob == <<"B","o","b">>
S_hi == <<"h","i">>
\* a name and a body holding every character _escape_html rewrites
S_markup == <<"<","b",">","&","\"">>
S_twolines == <<"a","<","\n","b">>

\* values of 'type': the known ones, an unknown one, null, a number
TypeValues == {PyStr(t) : t \in KnownTypes} \cup {PyStr(S_report), PyNone, PyInt(5)}

\* values of 'msgContent'
InnerValues ==
    {Dict1("type", t) : t \in TypeValues}
    \cup {EmptyDict, Dict1("text", PyStr(S_hi)), PyNone, PyStr(S_hi), PyList(0)}

\* values of 'rcvMsgContent' / 'sndMsgContent'
DirValues ==
    {Dict1("msgContent", i) : i \in InnerValues}
    \cup {EmptyDict, PyNone, PyStr(S_hi), PyList(1)}

\* decoded content descriptors
ContentValues ==
    {Dict1("rcvMsgContent", d) : d \in DirValues}
    \cup {Dict1("sndMsgContent", d) : d \in DirValues}
    \cup {Dict2("rcvMsgContent", d, "sndMsgContent",
                Dict1("msgContent", Dict1("type", PyStr(S_voice)))) :
            d \in {PyNone, EmptyDict, Dict1("msgContent", Dict1("type", PyStr(S_image)))}}
    \cup {Dict2("rcvMsgContent", Dict1("msgContent", Dict1("type", PyStr(S_image))),
                "sndMsgContent", PyNone)}
    \cup {EmptyDict, Dict1("rcvGroupEvent", EmptyDict), PyNone, PyInt(5), PyStr(S_hi), PyList(0)}

\* the item_content column
ContentColumn == {PyNone, EmptyJsonText, BadJsonText} \cup {JsonText(v) : v \in ContentValues}

\* a quoted text longer than both preview bounds would need 101 characters;
\* the quoted texts here are short, empty, or not strings
QuoteTextValues == {PyStr(<<>>), PyStr(S_hi), PyStr(S_markup), PyNone, PyInt(0), PyInt(5)}

\* the quoted_content column
QuoteColumn ==
    {PyNone, EmptyJsonText, BadJsonText}
    \cup {JsonText(Dict1("text", t)) : t \in QuoteTextValues}
    \cup {JsonText(v) : v \in {EmptyDict, Dict1("type", PyStr(S_text)), PyNone, PyList(1), PyStr(S_hi)}}

\* the integer flag columns
FlagColumn == {PyNone, PyInt(0), PyInt(1)}

D_0101 == <<"2","0","2","4","-","0","1","-","0","1">>
D_0102 == <<"2","0","2","4","-","0","1","-","0","2">>
D_0230 == <<"2","0","2","4","-","0","2","-","3","0">>
T_0900 == <<"0","9",":","0","0",":","0","0">>
T_1000 == <<"1","0",":","0","0",":","0","0">>
T_0800 == <<"0","8",":","0","0",":","0","0">>
T_0905 == <<"0","9",":","0","5">>
T_2400 == <<"2","4",":","0","0",":","0","0">>
S_Tuesday == <<"T","u","e","s","d","a","y">>
S_garbage == <<"n","/","a">>

\* a date-time with a Z that is not its suffix
S_zoned == D_0101 \o <<"T","Z">> \o T_0900

TsDates == {D_0101, D_0102, D_0230}
TsSeps == {<<"T">>, <<" ">>}
TsTimes == {T_0900, T_0905, T_2400}
TsSuffixes == {<<>>, <<".","1","2","3">>, <<"Z">>, <<".","1","2","3","Z">>,
               <<"+","0","1",":","0","0">>}

\* the item_ts column
TsColumn ==
    {PyNone, PyStr(<<>>), PyInt(0), PyInt(1704099600),
     PyStr(S_Tuesday), PyStr(S_garbage), PyStr(D_0101), PyStr(D_0101 \o <<"T">>),
     PyStr(S_zoned)}
    \cup {PyStr(d \o sep \o t \o x) :
            d \in TsDates, sep \in TsSeps, t \in TsTimes, x \in TsSuffixes}

\* counterpart names: contact['display_name'] or contact['name'], and the
\* group_members.local_display_name of a LEFT JOIN
NameColumn == {PyNone, PyStr(<<>>), PyStr(S_Bob), PyStr(S_markup)}

\* a row without its chat_item_id
BaseRow ==
    [item_ts |-> PyStr(D_0101 \o <<" ">> \o T_0900), item_sent |-> PyInt(0),
     item_text |-> PyStr(S_hi), item_deleted |-> PyInt(0),
     item_content |-> JsonText(Dict1("rcvMsgContent",
                          Dict1("msgContent", Dict1("type", PyStr(S_text))))),
     item_edited |-> PyNone, quoted_content |-> PyNone, quoted_sent |-> PyNone,
     local_display_name |-> PyStr(S_Bob)]

\* rows for SpecParse: each family varies the columns one part of
\* _parse_message reads
ParseRowSet ==
    {[BaseRow EXCEPT !.item_content = c, !.item_sent = s] :
        c \in ContentColumn, s \in {PyInt(0), PyInt(1)}}
    \cup {[BaseRow EXCEPT !.quoted_content = q, !.quoted_sent = qs, !.item_deleted = d] :
        q \in QuoteColumn, qs \in FlagColumn, d \in {PyInt(0), PyInt(1)}}
    \cup {[BaseRow EXCEPT !.item_ts = ts] : ts \in TsColumn}
    \cup {[BaseRow EXCEPT !.item_sent = s, !.local_display_name = n,
                          !.item_edited = e, !.item_text = t] :
        s \in FlagColumn, n \in NameColumn, e \in FlagColumn,
        t \in {PyNone, PyStr(<<>>), PyStr(S_hi)}}

\* rows for SpecRender: deleted or not, with or without body, quote and media type
RenderRowSet ==
    {[BaseRow EXCEPT !.item_deleted = d, !.item_text = t, !.quoted_content = q,
                     !.item_content = c] :
        d \in {PyInt(0), PyInt(1)},
        t \in {PyStr(<<>>), PyStr(S_twolines)},
        q \in {PyNone, JsonText(Dict1("text", PyStr(S_markup)))},
        c \in {JsonText(Dict1("rcvMsgContent",
                   Dict1("msgContent", Dict1("type", PyStr(ty))))) : ty \in {S_text, S_image}}}
    \cup {[BaseRow EXCEPT !.item_sent = PyInt(1), !.item_edited = PyInt(1)]}

\* rows for SpecDates: two days, a missing timestamp, a timestamp that is not a date
DateRowSet ==
    {[BaseRow EXCEPT !.item_ts = ts] :
        ts \in {PyStr(D_0101 \o <<"T">> \o T_0900), PyStr(D_0101 \o <<" ">> \o T_1000),
                PyStr(D_0102 \o <<" ">> \o T_0800), PyNone, PyStr(S_garbage)}}

\* quoted texts around the two preview bounds: 50 and 51 characters (the
\* 51st is cut in text), 60, 100 and 101 (the 101st is cut in html); the
\* last character kept is one _escape_html rewrites
Q_50 == Repeat("a", 49) \o <<"&">>
Q_51 == Q_50 \o <<"<">>
Q_60 == Repeat("a", 29) \o <<"\"">> \o Repeat("b", 30)
Q_100 == Repeat("a", 99) \o <<"&">>
Q_101 == Q_100 \o <<"<">>

LongQuoteTexts == {S_markup, Q_50, Q_51, Q_60, Q_100, Q_101}

\* rows for SpecQuote: replies to a quoted text of each length, and one
\* message that is no reply
QuoteRowSet ==
    {[BaseRow EXCEPT !.quoted_content = JsonText(Dict1("text", PyStr(t))),
                     !.quoted_sent = qs] :
        t \in LongQuoteTexts, qs \in {PyInt(0), PyInt(1)}}
    \cup {BaseRow}

\* a body with a backslash ahead of a quote, a line break and the letter n
S_escapes == <<"\\", "\"", "\n", "n", "\\", "n">>

\* rows for SpecJson: every field of a Message in each type it takes
JsonRowSet ==
    {BaseRow,
     [BaseRow EXCEPT !.item_text = PyStr(S_escapes), !.item_ts = PyNone,
                     !.item_content = JsonText(Dict1("rcvMsgContent",
                         Dict1("msgContent", Dict1("type", PyNone)))),
                     !.quoted_content = JsonText(Dict1("text", PyInt(5))),
                     !.quoted_sent = PyInt(1)],
     [BaseRow EXCEPT !.item_text = PyNone, !.item_ts = PyInt(1704099600),
                     !.item_sent = PyInt(1), !.item_edited = PyInt(1),
                     !.item_content = JsonText(Dict1("sndMsgContent",
                         Dict1("msgContent", Dict1("type", PyInt(5))))),
                     !.quoted_content = JsonText(Dict1("text", PyStr(S_markup))),
                     !.quoted_sent = PyInt(0)],
     [BaseRow EXCEPT !.item_ts = PyStr(D_0101 \o <<"T">> \o T_0900 \o <<".","1","2","3","Z">>),
                     !.item_deleted = PyInt(1),
                     !.item_content = JsonText(Dict1("rcvMsgContent",
                         Dict1("msgContent", Dict1("type", PyStr(S_image))))),
                     !.quoted_content = JsonText(Dict1("text", PyStr(Q_101)))],
     [BaseRow EXCEPT !.item_ts = PyStr(S_garbage), !.item_text = PyStr(S_twolines),
                     !.local_display_name = PyNone,
                     !.quoted_content = JsonText(Dict1("text", PyStr(Q_60))),
                     !.quoted_sent = PyInt(1)],
     [BaseRow EXCEPT !.item_text = PyStr(S_markup), !.item_ts = PyStr(<<>>),
                     !.local_display_name = PyStr(S_markup),
                     !.item_content = BadJsonText]}

\* rows for SpecMedia: every value of 'type', with and without a body,
\* deleted or not
MediaRowSet ==
    {[BaseRow EXCEPT !.item_content = JsonText(Dict1("rcvMsgContent",
                         Dict1("msgContent", Dict1("type", ty)))),
                     !.item_text = t, !.item_deleted = d] :
        ty \in TypeValues,
        t \in {PyNone, PyStr(<<>>), PyStr(S_hi), PyStr(S_twolines)},
        d \in {PyInt(0), PyInt(1)}}

\* the sequences of length 1..n over the rows of S, chat_item_id being the
\* position of the row
RowSeqs(S, n) ==
    UNION {{[i \in 1..len |->
                [chat_item_id |-> i, item_ts |-> f[i].item_ts, item_sent |-> f[i].item_sent,
                 item_text |-> f[i].item_text, item_deleted |-> f[i].item_deleted,
                 item_content |-> f[i].item_content, item_edited |-> f[i].item_edited,
                 quoted_content |-> f[i].quoted_content, quoted_sent |-> f[i].quoted_sent,
                 local_display_name |-> f[i].local_display_name]] :
            f \in [1..len -> S]} : len \in 1..n}

\* the method that loaded the messages, with its contact_name argument
NoCall == [op |-> "none", contact_name |-> PyNone]

\* nothing written yet
NoFile == [fmt |-> "none"]

(***************************************************************************)
(* State after construction: the rows of the chat are in the store,        *)
(* nothing is loaded, nothing is exported                                  *)
(***************************************************************************)
InitRest ==
    /\ pc = "start"
    /\ call = NoCall
    /\ messages = <<>>
    /\ file = NoFile
    /\ raised = FALSE
    /\ esc_in = <<>>
    /\ esc_out = <<>>

InitParse == db_rows \in RowSeqs(ParseRowSet, 1) /\ InitRest

(***************************************************************************)
(* ChatExporter: an artifact is the sequence of the pieces the code        *)
(* appends, each piece being the template of one append statement with     *)
(* the strings interpolated into it                                        *)
(***************************************************************************)
Line(tpl, args) == [tpl |-> tpl, args |-> args]

\* CONTENT_ICONS (lines 245-252); a glyph is one character
CONTENT_ICONS ==
    [t \in KnownTypes |->
        CASE t = S_text  -> <<>>
          [] t = S_image -> <<"(camera)">>
          [] t = S_file  -> <<"(paperclip)">>
          [] t = S_voice -> <<"(microphone)">>
          [] t = S_video -> <<"(clapper)">>
          [] t = S_link  -> <<"(link)">>]

\* the default glyph of line 453
ICON_PAGE == <<"(page)">>

\* CONTENT_ICONS.get(content_type, default); lists and dicts are unhashable
IconGet(content_type, default) ==
    IF content_type.k = "str" /\ content_type.s \in KnownTypes
    THEN CONTENT_ICONS[content_type.s] ELSE default

\* msg['timestamp'].split(' ')[0] if msg['timestamp'] else ''
MsgDate(msg) == IF msg.timestamp # <<>> THEN Split(msg.timestamp, " ")[1] ELSE <<>>

\* NewDate without the "msg_date and" guard
NewDate_NoGuard(msg, current_date) ==
    current_date.k = "none" \/ MsgDate(msg) # current_date.s

\* lines 268-269 and 425-426: the date a separator is emitted for, if any
NewDate(msg, current_date) ==
    MsgDate(msg) # <<>> /\ (current_date.k = "none" \/ MsgDate(msg) # current_date.s)

\* current_date after the message
NextDate(msg, current_date) ==
    IF NewDate(msg, current_date) THEN PyStr(MsgDate(msg)) ELSE current_date

\* 'ME' if msg['quote']['sent_by_me'] else 'THEM'
QuoteSender(msg) == IF msg.quote.sent_by_me THEN S_ME ELSE S_THEM

(***************************************************************************)
(* ChatExporter._escape_html                                               *)
(***************************************************************************)
E_amp == <<"&","a","m","p",";">>
E_lt == <<"&","l","t",";">>
E_gt == <<"&","g","t",";">>
E_quot == <<"&","q","u","o","t",";">>
E_br == <<"<","b","r",">">>

\* _escape_html with the ampersand replaced last
_escape_html_AmpLast(text) ==
    Replace(Replace(Replace(Replace(Replace(text, "<", E_lt), ">", E_gt),
                    "\"", E_quot), "\n", E_br), "&", E_amp)

_escape_html(text) ==
    Replace(Replace(Replace(Replace(Replace(text, "&", E_amp), "<", E_lt), ">", E_gt),
                    "\"", E_quot), "\n", E_br)

(***************************************************************************)
(* ChatExporter.export_txt                                                 *)
(***************************************************************************)
S_dots == <<".",".",".">>

\* TxtQuotePreview with the marker appended from 50 characters on
TxtQuotePreview_AtBound(text) ==
    Slice(text, 50) \o (IF Len(text) >= 50 THEN S_dots ELSE <<>>)

\* lines 285-287
TxtQuotePreview(text) == Slice(text, 50) \o (IF Len(text) > 50 THEN S_dots ELSE <<>>)

\* TxtContent with the text test ahead of the deleted test
TxtContent_TextFirst(msg) ==
    LET icon == IconGet(msg.content_type, <<>>) IN
    IF msg.text # <<>>
    THEN LET text_lines == Split(msg.text, "\n") IN
         [i \in 1..Len(text_lines) |->
            Line("text", <<IF icon # <<>> THEN icon \o <<" ">> ELSE <<>>, text_lines[i]>>)]
    ELSE IF msg.deleted THEN <<Line("deleted", <<>>)>>
    ELSE <<Line("media", <<icon, Upper(msg.content_type.s)>>)>>

\* lines 290-298
TxtContent(msg) ==
    LET icon == IconGet(msg.content_type, <<>>) IN
    IF msg.deleted THEN <<Line("deleted", <<>>)>>
    ELSE IF msg.text # <<>>
    THEN LET text_lines == Split(msg.text, "\n") IN
         [i \in 1..Len(text_lines) |->
            Line("text", <<IF icon # <<>> THEN icon \o <<" ">> ELSE <<>>, text_lines[i]>>)]
    ELSE <<Line("media", <<icon, Upper(msg.content_type.s)>>)>>

\* lines 266-301 for one message
TxtMessage(msg, current_date) ==
    (IF NewDate(msg, current_date)
     THEN <<Line("blank", <<>>), Line("date", <<MsgDate(msg)>>), Line("blank", <<>>)>>
     ELSE <<>>)
    \o <<Line("head", <<IF Contains(msg.timestamp, " ")
                        THEN Split(msg.timestamp, " ")[2] ELSE msg.timestamp,
                        msg.sender,
                        IF msg.edited THEN <<" ","[","e","d","i","t","e","d","]">> ELSE <<>> >>)>>
    \o (IF msg.quote.k # "none"
        THEN <<Line("quote", <<QuoteSender(msg), TxtQuotePreview(msg.quote.text.s)>>)>>
        ELSE <<>>)
    \o TxtContent(msg)
    \o <<Line("end", <<>>), Line("blank", <<>>)>>

RECURSIVE TxtMessages(_, _)
\* the loop of lines 264-301
TxtMessages(msgs, current_date) ==
    IF msgs = <<>> THEN <<>>
    ELSE TxtMessage(Head(msgs), current_date)
         \o TxtMessages(Tail(msgs), NextDate(Head(msgs), current_date))

\* the statements of export_txt that raise on a message: hashing a list or
\* dict content_type (278), slicing a quote text that is a number (285),
\* .upper() on a content_type that is not a str (298)
TxtRaises(msg) ==
    \/ msg.content_type.k \in {"list", "dict"}
    \/ msg.quote.k # "none" /\ msg.quote.text.k # "str"
    \/ ~msg.deleted /\ msg.text = <<>> /\ msg.content_type.k # "str"

\* the lines written to the file
export_txt(msgs, chat_name) ==
    <<Line("rule", <<>>), Line("title", <<chat_name>>), Line("exported", <<>>),
      Line("count", <<IntStr(Len(msgs))>>), Line("rule", <<>>), Line("blank", <<>>)>>
    \o TxtMessages(msgs, PyNone)
    \o <<Line("rule", <<>>), Line("footer", <<>>), Line("rule", <<>>)>>

(***************************************************************************)
(* ChatExporter.export_html                                                *)
(***************************************************************************)
\* lines 447-454
HtmlContent(msg) ==
    IF msg.deleted THEN <<Line("deleted", <<>>)>>
    ELSE IF msg.text # <<>> THEN <<Line("text", <<_escape_html(msg.text)>>)>>
    ELSE <<Line("media", <<IconGet(msg.content_type, ICON_PAGE), Upper(msg.content_type.s)>>)>>

\* lines 424-456 for one message
HtmlMessage(msg, current_date) ==
    (IF NewDate(msg, current_date) THEN <<Line("date", <<MsgDate(msg)>>)>> ELSE <<>>)
    \o <<Line("open", <<IF msg.sent THEN <<"s","e","n","t">>
                        ELSE <<"r","e","c","e","i","v","e","d">> >>),
         Line("sender", <<msg.sender>>),
         Line("time", <<IF Contains(msg.timestamp, " ")
                        THEN Split(msg.timestamp, " ")[2] ELSE <<>>,
                        IF msg.edited THEN <<"(","e","d","i","t","e","d",")">> ELSE <<>> >>)>>
    \o (IF msg.quote.k # "none"
        THEN <<Line("quote", <<QuoteSender(msg), _escape_html(Slice(msg.quote.text.s, 100))>>)>>
        ELSE <<>>)
    \o HtmlContent(msg)
    \o <<Line("end", <<>>)>>

RECURSIVE HtmlMessages(_, _)
\* the loop of lines 422-456
HtmlMessages(msgs, current_date) ==
    IF msgs = <<>> THEN <<>>
    ELSE HtmlMessage(Head(msgs), current_date)
         \o HtmlMessages(Tail(msgs), NextDate(Head(msgs), current_date))

\* the statements of export_html that raise on a message: slicing a quote
\* text that is a number (441), hashing a list or dict content_type and
\* .upper() on a content_type that is not a str (453-454)
HtmlRaises(msg) ==
    \/ msg.quote.k # "none" /\ msg.quote.text.k # "str"
    \/ ~msg.deleted /\ msg.text = <<>> /\ msg.content_type.k # "str"

\* the pieces written to the file
export_html(msgs, chat_name) ==
    <<Line("title", <<chat_name>>), Line("h1", <<chat_name>>),
      Line("meta", <<IntStr(Len(msgs))>>)>>
    \o HtmlMessages(msgs, PyNone)
    \o <<Line("footer", <<>>)>>

(***************************************************************************)
(* ChatExporter.export_json                                                *)
(***************************************************************************)
\* the escapes json.dump(ensure_ascii=False) writes inside a string
JsonEscapeChar(c) ==
    CASE c = "\"" -> <<"\\", "\"">>
      [] c = "\\" -> <<"\\", "\\">>
      [] c = "\n" -> <<"\\", "n">>
      [] c = "\r" -> <<"\\", "r">>
      [] c = "\t" -> <<"\\", "t">>
      [] OTHER    -> <<c>>

RECURSIVE JsonEscape(_)
\* every character of s escaped, the two halves of s apart
JsonEscape(s) ==
    IF s = <<>> THEN <<>>
    ELSE IF Len(s) = 1 THEN JsonEscapeChar(s[1])
    ELSE LET half == Len(s) \div 2
         IN  JsonEscape(SubSeq(s, 1, half)) \o JsonEscape(SubSeq(s, half + 1, Len(s)))

\* a str as json.dump writes it
JsonString(s) == <<"\"">> \o JsonEscape(s) \o <<"\"">>

J_null == <<"n","u","l","l">>
J_true == <<"t","r","u","e">>
J_false == <<"f","a","l","s","e">>

\* a bool as json.dump writes it
JsonBool(b) == IF b THEN J_true ELSE J_false

\* the line break and indentation of indent=2 at a nesting level
JsonIndent(level) == <<"\n">> \o Repeat(" ", 2 * level)

RECURSIVE JsonMembers(_, _)
\* the members of a dict, in insertion order, one per line
JsonMembers(members, level) ==
    IF members = <<>> THEN <<>>
    ELSE JsonIndent(level) \o JsonString(Head(members).key) \o <<":", " ">>
         \o Head(members).val
         \o (IF Len(members) > 1 THEN <<",">> ELSE <<>>)
         \o JsonMembers(Tail(members), level)

\* a dict whose values are already written, opened at a nesting level
JsonObject(members, level) ==
    IF members = <<>> THEN <<"{", "}">>
    ELSE <<"{">> \o JsonMembers(members, level + 1) \o JsonIndent(level) \o <<"}">>

RECURSIVE JsonItems(_, _)
JsonItems(items, level) ==
    IF items = <<>> THEN <<>>
    ELSE JsonIndent(level) \o Head(items)
         \o (IF Len(items) > 1 THEN <<",">> ELSE <<>>)
         \o JsonItems(Tail(items), level)

\* a list whose items are already written
JsonArray(items, level) ==
    IF items = <<>> THEN <<"[", "]">>
    ELSE <<"[">> \o JsonItems(items, level + 1) \o JsonIndent(level) \o <<"]">>

\* keys of the document
K_id == <<"i","d">>
K_timestamp == <<"t","i","m","e","s","t","a","m","p">>
K_timestamp_raw == <<"t","i","m","e","s","t","a","m","p","_","r","a","w">>
K_sent == <<"s","e","n","t">>
K_sender == <<"s","e","n","d","e","r">>
K_text == <<"t","e","x","t">>
K_deleted == <<"d","e","l","e","t","e","d">>
K_edited == <<"e","d","i","t","e","d">>
K_content_type == <<"c","o","n","t","e","n","t","_","t","y","p","e">>
K_quote == <<"q","u","o","t","e">>
K_sent_by_me == <<"s","e","n","t","_","b","y","_","m","e">>
K_meta == <<"m","e","t","a">>
K_messages == <<"m","e","s","s","a","g","e","s">>
K_chat_name == <<"c","h","a","t","_","n","a","m","e">>
K_exported_at == <<"e","x","p","o","r","t","e","d","_","a","t">>
K_message_count == <<"m","e","s","s","a","g","e","_","c","o","u","n","t">>
K_tool == <<"t","o","o","l">>

Member(key, val) == [key |-> key, val |-> val]

\* a None, str, int or bool as json.dump writes it
JsonScalar(v) ==
    CASE v.k = "none" -> J_null
      [] v.k = "str"  -> JsonString(v.s)
      [] v.k = "int"  -> IntStr(v.n)
      [] v.k = "bool" -> JsonBool(v.b)

\* JsonQuote with the text cut to the 50 characters of the text preview
JsonQuote_Preview(quote, level) ==
    IF quote.k = "none" THEN J_null
    ELSE JsonObject(<<Member(K_text,
                             IF quote.text.k = "str"
                             THEN JsonString(Slice(quote.text.s, 50))
                             ELSE JsonScalar(quote.text)),
                      Member(K_sent_by_me, JsonBool(quote.sent_by_me))>>, level)

\* msg['quote'] as json.dump writes it: null, or the Quote dict of lines 193-196
JsonQuote(quote, level) ==
    IF quote.k = "none" THEN J_null
    ELSE JsonObject(<<Member(K_text, JsonScalar(quote.text)),
                      Member(K_sent_by_me, JsonBool(quote.sent_by_me))>>, level)

\* a Message dict, keys in the order of lines 200-211
JsonMessage(msg, level) ==
    JsonObject(<<Member(K_id, IntStr(msg.id)),
                 Member(K_timestamp, JsonString(msg.timestamp)),
                 Member(K_timestamp_raw, JsonScalar(msg.timestamp_raw)),
                 Member(K_sent, JsonBool(msg.sent)),
                 Member(K_sender, JsonString(msg.sender)),
                 Member(K_text, JsonString(msg.text)),
                 Member(K_deleted, JsonBool(msg.deleted)),
                 Member(K_edited, JsonBool(msg.edited)),
                 Member(K_content_type, JsonScalar(msg.content_type)),
                 Member(K_quote, JsonQuote(msg.quote, level + 1))>>, level)

S_SimpleDB == <<"S","i","m","p","l","e","D","B">>

\* datetime.now().isoformat() of line 315: the clock is not part of the
\* program; one reading stands for it
S_now == D_0102 \o <<"T">> \o T_1000

\* the text json.dump(data, f, ensure_ascii=False, indent=2) writes
export_json(msgs, chat_name) ==
    JsonObject(
        <<Member(K_meta,
                 JsonObject(<<Member(K_chat_name, JsonString(chat_name)),
                              Member(K_exported_at, JsonString(S_now)),
                              Member(K_message_count, IntStr(Len(msgs))),
                              Member(K_tool, JsonString(S_SimpleDB))>>, 1)),
          Member(K_messages,
                 JsonArray([i \in 1..Len(msgs) |-> JsonMessage(msgs[i], 2)], 1))>>,
        0)

(***************************************************************************)
(* Operations                                                              *)
(***************************************************************************)
\* labels given to the renderers: contact['name'] / group['name']
ChatNames == {S_Bob, S_markup}

\* SimpleXDB.get_contact_messages: fetch the rows, parse each, return the list
GetContactMessages ==
    /\ pc = "start"
    /\ \E contact_name \in NameColumn :
          /\ messages' = get_contact_messages(db_rows, contact_name)
          /\ call' = [op |-> "contact", contact_name |-> contact_name]
    /\ pc' = "loaded"
    /\ UNCHANGED <<db_rows, file, raised, esc_in, esc_out>>

\* SimpleXDB.get_group_messages
GetGroupMessages ==
    /\ pc = "start"
    /\ messages' = get_group_messages(db_rows)
    /\ call' = [op |-> "group", contact_name |-> PyNone]
    /\ pc' = "loaded"
    /\ UNCHANGED <<db_rows, file, raised, esc_in, esc_out>>

\* ChatExporter.export_txt: the file is opened and written after the loop,
\* so a call that raises writes nothing.  The renderers read the messages
\* and keep no state, so each call is taken from the loaded state.
ExportTxt ==
    /\ pc = "loaded"
    /\ \E chat_name \in ChatNames :
          IF \E i \in 1..Len(messages) : TxtRaises(messages[i])
          THEN raised' = TRUE /\ file' = NoFile
          ELSE /\ raised' = FALSE
               /\ file' = [fmt |-> "txt", chat_name |-> chat_name,
                           content |-> export_txt(messages, chat_name)]
    /\ pc' = "exported"
    /\ UNCHANGED <<db_rows, call, messages, esc_in, esc_out>>

\* ChatExporter.export_json
ExportJson ==
    /\ pc = "loaded"
    /\ \E chat_name \in ChatNames :
          file' = [fmt |-> "json", chat_name |-> chat_name,
                   content |-> export_json(messages, chat_name)]
    /\ raised' = FALSE
    /\ pc' = "exported"
    /\ UNCHANGED <<db_rows, call, messages, esc_in, esc_out>>

\* ChatExporter.export_html
ExportHtml ==
    /\ pc = "loaded"
    /\ \E chat_name \in ChatNames :
          IF \E i \in 1..Len(messages) : HtmlRaises(messages[i])
          THEN raised' = TRUE /\ file' = NoFile
          ELSE /\ raised' = FALSE
               /\ file' = [fmt |-> "html", chat_name |-> chat_name,
                           content |-> export_html(messages, chat_name)]
    /\ pc' = "exported"
    /\ UNCHANGED <<db_rows, call, messages, esc_in, esc_out>>

Next ==
    \/ GetContactMessages
    \/ GetGroupMessages
    \/ ExportTxt
    \/ ExportJson
    \/ ExportHtml

InitRender == db_rows \in RowSeqs(RenderRowSet, MaxRows) /\ InitRest

InitDates == db_rows \in RowSeqs(DateRowSet, MaxDateRows) /\ InitRest

\* one row of any shape, loaded and exported
SpecParse == InitParse /\ [][Next]_vars

\* a chat of rendered rows
Spec == InitRender /\ [][Next]_vars

\* a chat of rows that differ in their timestamps
SpecDates == InitDates /\ [][Next]_vars

InitQuote == db_rows \in RowSeqs(QuoteRowSet, MaxQuoteRows) /\ InitRest

\* a chat of replies to quoted texts of varying length
SpecQuote == InitQuote /\ [][Next]_vars

InitMedia == db_rows \in RowSeqs(MediaRowSet, MaxMediaRows) /\ InitRest

\* a chat of messages of every content type
SpecMedia == InitMedia /\ [][Next]_vars

InitJson == db_rows \in RowSeqs(JsonRowSet, MaxJsonRows) /\ InitRest

\* a chat of messages whose fields take every type
SpecJson == InitJson /\ [][Next]_vars

(***************************************************************************)
(* _escape_html on its own                                                 *)
(***************************************************************************)
EscAlphabet == {"&", "<", ">", "\"", "\n", "a", ";"}

\* the text <b>&"test"</b>\nline2
S_example == <<"<","b",">","&","\"","t","e","s","t","\"","<","/","b",">","\n",
               "l","i","n","e","2">>

EscInputs == UNION {[1..n -> EscAlphabet] : n \in 0..MaxStrLen} \cup {S_example}

InitEscape ==
    /\ esc_in \in EscInputs
    /\ esc_out = <<>>
    /\ pc = "start"
    /\ call = NoCall
    /\ db_rows = <<>>
    /\ messages = <<>>
    /\ file = NoFile
    /\ raised = FALSE

EscapeHtml ==
    /\ pc = "start"
    /\ esc_out' = _escape_html(esc_in)
    /\ pc' = "escaped"
    /\ UNCHANGED <<db_rows, call, messages, file, raised, esc_in>>

NextEscape == EscapeHtml

SpecEscape == InitEscape /\ [][NextEscape]_vars

(***************************************************************************)
(* Reading an artifact back: the block of the i-th message                 *)
(***************************************************************************)
\* the template that opens a message block
BlockOpen(fmt) == IF fmt = "txt" THEN "head" ELSE "open"

\* positions of the pieces of template tpl
Positions(c, tpl) == {p \in 1..Len(c) : c[p].tpl = tpl}

\* position of the i-th piece of template tpl
NthPosition(c, tpl, i) ==
    CHOOSE p \in Positions(c, tpl) : Cardinality({q \in Positions(c, tpl) : q <= p}) = i

\* the pieces from the i-th opening piece to the next closing piece
Block(c, fmt, i) ==
    LET from == NthPosition(c, BlockOpen(fmt), i)
        to   == CHOOSE q \in Positions(c, "end") :
                    q > from /\ \A r \in Positions(c, "end") : r > from => q <= r
    IN  SubSeq(c, from, to)

\* the date separators between the block of message i-1 and that of message i
SeparatorsBefore(c, fmt, i) ==
    {p \in Positions(c, "date") :
        /\ p < NthPosition(c, BlockOpen(fmt), i)
        /\ i > 1 => p > NthPosition(c, BlockOpen(fmt), i - 1)}

\* the pieces of template tpl in a block
Pieces(b, tpl) == SelectSeq(b, LAMBDA l : l.tpl = tpl)

\* a txt or html artifact has been written
Rendered == file.fmt \in {"txt", "html"}

MatchesShape(item_content) ==
    /\ item_content.k = "json"
    /\ item_content.ok
    /\ item_content.v.k = "dict"
    /\ item_content.v.keys \cap {"rcvMsgContent", "sndMsgContent"} # {}

(***************************************************************************)
(* C1 (as claimed; the code never skips): a row whose content descriptor   *)
(* has neither the key rcvMsgContent nor the key sndMsgContent contributes *)
(* no Message to the list get_contact_messages / get_group_messages        *)
(* returns.                                                                *)
(***************************************************************************)
C1_SkipsOtherShapes ==
    pc \in {"loaded", "exported"} =>
        \A i \in 1..Len(db_rows) :
            ~MatchesShape(db_rows[i].item_content) =>
                \A j \in 1..Len(messages) : messages[j].id # db_rows[i].chat_item_id

(***************************************************************************)
(* C2 (as claimed; the code passes 'type' through): every Message has a    *)
(* content_type among text, image, file, voice, video, link.               *)
(***************************************************************************)
C2_ContentTypeInEnum ==
    \A j \in 1..Len(messages) :
        messages[j].content_type \in {PyStr(t) : t \in KnownTypes}

\* the value under the direction key the code selects
SelectedDirection(v) ==
    IF "rcvMsgContent" \in v.keys THEN v.o["rcvMsgContent"] ELSE v.o["sndMsgContent"]

ExtractionFails(item_content) ==
    /\ item_content.k = "json"
    /\ \/ ~item_content.ok
       \/ item_content.v.k # "dict"
       \/ item_content.v.keys \cap {"rcvMsgContent", "sndMsgContent"} = {}
       \/ SelectedDirection(item_content.v).k # "dict"
       \/ "msgContent" \notin SelectedDirection(item_content.v).keys
       \/ SelectedDirection(item_content.v).o["msgContent"].k # "dict"
       \/ "type" \notin SelectedDirection(item_content.v).o["msgContent"].keys

(***************************************************************************)
(* C3: a row whose content descriptor fails at an extraction step (not     *)
(* JSON, not an object, neither direction key, the selected direction      *)
(* value not an object, msgContent missing or not an object, type missing) *)
(* gets a Message, with content_type 'text'.                               *)
(***************************************************************************)
C3_FailedExtractionIsText ==
    pc \in {"loaded", "exported"} =>
        /\ Len(messages) = Len(db_rows)
        /\ \A i \in 1..Len(db_rows) :
              ExtractionFails(db_rows[i].item_content) =>
                  messages[i].content_type = PyStr(S_text)

\* a row whose msgContent is not an object has been parsed
C3_Witness ==
    /\ pc \in {"loaded", "exported"}
    /\ \E i \in 1..Len(db_rows) :
          /\ db_rows[i].item_content.k = "json" /\ db_rows[i].item_content.ok
          /\ db_rows[i].item_content.v.k = "dict"
          /\ "sndMsgContent" \in db_rows[i].item_content.v.keys
          /\ SelectedDirection(db_rows[i].item_content.v).k = "dict"
          /\ "msgContent" \in SelectedDirection(db_rows[i].item_content.v).keys
          /\ SelectedDirection(db_rows[i].item_content.v).o["msgContent"].k = "list"
          /\ messages[i].content_type = PyStr(S_text)

QuoteTextOf(quoted_content) ==
    IF /\ quoted_content.k = "json" /\ quoted_content.ok
       /\ quoted_content.v.k = "dict" /\ "text" \in quoted_content.v.keys
    THEN quoted_content.v.o["text"]
    ELSE PyNone

ExpectedQuote(quoted_content, quoted_sent) ==
    IF QuoteTextOf(quoted_content) \in {PyNone, PyStr(<<>>), PyInt(0)}
    THEN PyNone
    ELSE [k |-> "quote", text |-> QuoteTextOf(quoted_content),
          sent_by_me |-> (quoted_sent = PyInt(1))]

(***************************************************************************)
(* C4: the quote of a Message is null when the quote descriptor is absent, *)
(* empty, unparsable, or has no 'text' or an empty one ('', null, 0);      *)
(* otherwise it is the whole quoted text with the truth value of           *)
(* quoted_sent.  The deleted flag plays no part.                           *)
(***************************************************************************)
C4_QuoteFromDescriptorOnly ==
    pc \in {"loaded", "exported"} =>
        \A i \in 1..Len(messages) :
            messages[i].quote = ExpectedQuote(db_rows[i].quoted_content, db_rows[i].quoted_sent)

\* a deleted message that carries its quote
C4_Witness ==
    /\ pc \in {"loaded", "exported"}
    /\ \E i \in 1..Len(messages) :
          /\ messages[i].deleted
          /\ messages[i].quote.k = "quote"
          /\ messages[i].quote.text = PyStr(S_markup)
          /\ messages[i].quote.sent_by_me

\* the counterpart name the call supplies for row i
Counterpart(i) ==
    IF call.op = "group" THEN db_rows[i].local_display_name ELSE call.contact_name

(***************************************************************************)
(* C5: the sender label is "ME" when the sent flag is true, whatever the   *)
(* counterpart name, and sent is true; otherwise it is the counterpart     *)
(* name when that is non-empty and 'CONTACT' when it is empty or absent.   *)
(***************************************************************************)
C5_SenderLabel ==
    pc \in {"loaded", "exported"} =>
        \A i \in 1..Len(messages) :
            IF db_rows[i].item_sent = PyInt(1)
            THEN messages[i].sender = S_ME /\ messages[i].sent
            ELSE /\ ~messages[i].sent
                 /\ messages[i].sender =
                        IF Counterpart(i) \in {PyNone, PyStr(<<>>)}
                        THEN S_CONTACT ELSE Counterpart(i).s

\* a sent row parsed with a counterpart name supplied
C5_Witness ==
    /\ pc \in {"loaded", "exported"}
    /\ \E i \in 1..Len(messages) :
          /\ db_rows[i].item_sent = PyInt(1)
          /\ Counterpart(i) = PyStr(S_Bob)
          /\ messages[i].sender = S_ME

IsFixedForm(s) ==
    /\ Len(s) = 19
    /\ \A i \in {1, 2, 3, 4, 6, 7, 9, 10, 12, 13, 15, 16, 18, 19} : IsDigit(s[i])
    /\ s[5] = "-" /\ s[8] = "-" /\ s[11] = " " /\ s[14] = ":" /\ s[17] = ":"

\* the raw timestamp is absent or empty
RawAbsent(raw) == raw \in {PyNone, PyStr(<<>>), PyInt(0)}

\* the raw value without its fraction or its Z
Cleaned(raw) ==
    IF Contains(Str(raw), ".") THEN BeforeFirst(Str(raw), ".")
    ELSE SelectSeq(Str(raw), LAMBDA c : c # "Z")

\* the raw value has the separator marker and its cleaned form is an ISO date-time
RawParses(raw) ==
    ~RawAbsent(raw) /\ Contains(Str(raw), "T") /\ fromisoformat(Cleaned(raw)).ok

(***************************************************************************)
(* C6 (as claimed; the code falls back to the raw string): timestamp is    *)
(* "YYYY-MM-DD HH:MM:SS" or the empty string, and is the empty string      *)
(* whenever the raw timestamp is absent or cannot be parsed.               *)
(***************************************************************************)
C6_FixedFormOrEmpty ==
    pc \in {"loaded", "exported"} =>
        \A i \in 1..Len(messages) :
            /\ messages[i].timestamp = <<>> \/ IsFixedForm(messages[i].timestamp)
            /\ (RawAbsent(db_rows[i].item_ts) \/ ~RawParses(db_rows[i].item_ts))
                   => messages[i].timestamp = <<>>

(***************************************************************************)
(* C6 (amended): timestamp is the empty string exactly when the raw        *)
(* timestamp is absent or empty; it has the form "YYYY-MM-DD HH:MM:SS"     *)
(* when the raw value contains 'T' and its cleaned form parses; in every   *)
(* other case it is the raw value's string form unchanged.                 *)
(***************************************************************************)
C6_FixedFormOrRaw ==
    pc \in {"loaded", "exported"} =>
        \A i \in 1..Len(messages) :
            LET raw == db_rows[i].item_ts
                ts  == messages[i].timestamp
            IN  /\ ts = <<>> <=> RawAbsent(raw)
                /\ RawParses(raw) => IsFixedForm(ts)
                /\ (~RawAbsent(raw) /\ ~RawParses(raw)) => ts = Str(raw)

\* a raw value with 'T' that does not parse came back unchanged
C6_Witness ==
    /\ pc \in {"loaded", "exported"}
    /\ \E i \in 1..Len(messages) :
          /\ db_rows[i].item_ts = PyStr(D_0101 \o <<"T">> \o T_2400)
          /\ messages[i].timestamp = D_0101 \o <<"T">> \o T_2400

\* the date portion of a timestamp: what precedes the first space
DatePortion(ts) == BeforeFirst(ts, " ")

\* one block per message, carrying the message's sender
OneBlockEach ==
    /\ Cardinality(Positions(file.content, BlockOpen(file.fmt))) = Len(messages)
    /\ Cardinality(Positions(file.content, "end")) = Len(messages)
    /\ \A i \in 1..Len(messages) :
          LET b == Block(file.content, file.fmt, i) IN
          IF file.fmt = "txt" THEN b[1].args[2] = messages[i].sender
          ELSE b[2].args[1] = messages[i].sender

\* every separator stands before some block
NoStraySeparator ==
    Positions(file.content, "date") =
        UNION {SeparatorsBefore(file.content, file.fmt, i) : i \in 1..Len(messages)}

(***************************************************************************)
(* C7 (as claimed; the code emits nothing for an empty date): in the txt   *)
(* and html artifacts there is one block per message, in order, and a date *)
(* separator precedes the block of message i exactly when i is the first   *)
(* message or its date portion differs from that of message i-1.           *)
(***************************************************************************)
C7_SeparatorAtEveryDateChange ==
    Rendered =>
        /\ OneBlockEach
        /\ NoStraySeparator
        /\ \A i \in 1..Len(messages) :
              Cardinality(SeparatorsBefore(file.content, file.fmt, i)) =
                  IF i = 1 \/ DatePortion(messages[i].timestamp)
                                  # DatePortion(messages[i - 1].timestamp)
                  THEN 1 ELSE 0

\* the earlier messages with a date
DatedBefore(i) == {j \in 1..(i - 1) : DatePortion(messages[j].timestamp) # <<>>}

\* the nearest of them
NearestDated(i) == CHOOSE j \in DatedBefore(i) : \A l \in DatedBefore(i) : l <= j

StartsRun(i) ==
    /\ DatePortion(messages[i].timestamp) # <<>>
    /\ \/ DatedBefore(i) = {}
       \/ DatePortion(messages[i].timestamp)
              # DatePortion(messages[NearestDated(i)].timestamp)

(***************************************************************************)
(* C7 (amended): there is one block per message, in order, and a date      *)
(* separator precedes the block of message i exactly when the date portion *)
(* of message i is non-empty and differs from the date portion of the      *)
(* nearest earlier message whose date portion is non-empty (or there is no *)
(* such message); the separator shows that date portion.                   *)
(***************************************************************************)
C7_SeparatorAtEveryDatedRun ==
    Rendered =>
        /\ OneBlockEach
        /\ NoStraySeparator
        /\ \A i \in 1..Len(messages) :
              LET seps == SeparatorsBefore(file.content, file.fmt, i) IN
              IF StartsRun(i)
              THEN /\ Cardinality(seps) = 1
                   /\ \A p \in seps :
                         file.content[p].args = <<DatePortion(messages[i].timestamp)>>
              ELSE seps = {}

\* 01-01, 01-01, 01-02 rendered as text: two separators
C7_Witness ==
    /\ file.fmt = "txt"
    /\ Len(messages) = 3
    /\ DatePortion(messages[1].timestamp) = D_0101
    /\ DatePortion(messages[2].timestamp) = D_0101
    /\ DatePortion(messages[3].timestamp) = D_0102
    /\ Cardinality(Positions(file.content, "date")) = 2

\* the block the renderer of the artifact makes of the message, undeleted
UndeletedBlock(msg) ==
    IF file.fmt = "txt"
    THEN TxtMessage([msg EXCEPT !.deleted = FALSE], PyNone)
    ELSE HtmlMessage([msg EXCEPT !.deleted = FALSE], PyNone)

(***************************************************************************)
(* C8: in the txt and html artifacts the block of a deleted message has    *)
(* the marker [Message deleted] as its only body, never the text nor a     *)
(* media placeholder, and its quote piece, ahead of the marker, is the one *)
(* the same message gets when it is not deleted.                           *)
(***************************************************************************)
C8_DeletedShowsOnlyMarker ==
    Rendered =>
        \A i \in 1..Len(messages) :
            messages[i].deleted =>
                LET b == Block(file.content, file.fmt, i) IN
                /\ Pieces(b, "deleted") = <<Line("deleted", <<>>)>>
                /\ Pieces(b, "text") = <<>>
                /\ Pieces(b, "media") = <<>>
                /\ b[Len(b) - 1].tpl = "deleted"
                /\ Pieces(b, "quote") = Pieces(UndeletedBlock(messages[i]), "quote")
                /\ Len(Pieces(b, "quote")) = IF messages[i].quote.k = "quote" THEN 1 ELSE 0

\* a deleted message with a body and a quote has been rendered as text
C8_Witness ==
    /\ file.fmt = "txt"
    /\ \E i \in 1..Len(messages) :
          /\ messages[i].deleted
          /\ messages[i].text = S_twolines
          /\ messages[i].quote.k = "quote"
          /\ Len(Pieces(Block(file.content, file.fmt, i), "quote")) = 1

(***************************************************************************)
(* The character-by-character escape                                       *)
(***************************************************************************)
EscapeChar(c) ==
    CASE c = "&"  -> E_amp
      [] c = "<"  -> E_lt
      [] c = ">"  -> E_gt
      [] c = "\"" -> E_quot
      [] c = "\n" -> E_br
      [] OTHER    -> <<c>>

RECURSIVE EscapeEach(_)
EscapeEach(text) ==
    IF text = <<>> THEN <<>>
    ELSE IF Len(text) = 1 THEN EscapeChar(text[1])
    ELSE LET half == Len(text) \div 2
         IN  EscapeEach(SubSeq(text, 1, half)) \o EscapeEach(SubSeq(text, half + 1, Len(text)))

(***************************************************************************)
(* C9 (as claimed; the code embeds the chat label and the sender as they   *)
(* are): in the html artifact the chat label of the title and the header,  *)
(* each sender, each quote preview and each body are escaped.              *)
(***************************************************************************)
C9_UserTextEscaped ==
    file.fmt = "html" =>
        /\ file.content[1].args = <<EscapeEach(file.chat_name)>>
        /\ file.content[2].args = <<EscapeEach(file.chat_name)>>
        /\ \A i \in 1..Len(messages) :
              LET b == Block(file.content, file.fmt, i) IN
              /\ Pieces(b, "sender")[1].args = <<EscapeEach(messages[i].sender)>>
              /\ \A q \in 1..Len(Pieces(b, "quote")) :
                    Pieces(b, "quote")[q].args[2]
                        = EscapeEach(Slice(messages[i].quote.text.s, 100))
              /\ \A t \in 1..Len(Pieces(b, "text")) :
                    Pieces(b, "text")[t].args = <<EscapeEach(messages[i].text)>>

(***************************************************************************)
(* C10: _escape_html is the character-by-character mapping & to &amp;,     *)
(* < to &lt;, > to &gt;, " to &quot;, newline to <br>, anything else kept. *)
(***************************************************************************)
C10_EscapeIsCharwise == pc = "escaped" => esc_out = EscapeEach(esc_in)

\* <b>&"test"</b>\nline2 became &lt;b&gt;&amp;&quot;test&quot;&lt;/b&gt;<br>line2
C10_Witness ==
    /\ pc = "escaped"
    /\ esc_in = S_example
    /\ esc_out = E_lt \o <<"b">> \o E_gt \o E_amp \o E_quot \o <<"t","e","s","t">>
                 \o E_quot \o E_lt \o <<"/","b">> \o E_gt \o E_br
                 \o <<"l","i","n","e","2">>

\* the first n characters of a text, all of it when it is shorter
FirstChars(t, n) == [j \in 1..(IF Len(t) < n THEN Len(t) ELSE n) |-> t[j]]

\* the preview shown in the quote piece of the block of message i
ShownPreview(i) == Pieces(Block(file.content, file.fmt, i), "quote")[1].args[2]

(***************************************************************************)
(* C11: for every message with a quote, the reply line of the txt artifact *)
(* shows the first 50 characters of the quote text, followed by ... exactly*)
(* when the quote text is longer than 50 characters; the quote block of    *)
(* the html artifact shows the escaped form of the first 100 characters of *)
(* the quote text, the cut being made before the escaping.                 *)
(***************************************************************************)
C11_QuotePreviewBounded ==
    Rendered =>
        \A i \in 1..Len(messages) :
            messages[i].quote.k = "quote" =>
                LET t == messages[i].quote.text.s IN
                /\ Len(Pieces(Block(file.content, file.fmt, i), "quote")) = 1
                /\ file.fmt = "txt" =>
                      /\ Len(t) > 50 => ShownPreview(i) = FirstChars(t, 50) \o S_dots
                      /\ Len(t) <= 50 => ShownPreview(i) = t
                /\ file.fmt = "html" =>
                      ShownPreview(i) = EscapeEach(FirstChars(t, 100))

\* a 60-character quote is shown as 50 characters and the marker in text
C11_Witness ==
    /\ file.fmt = "txt"
    /\ \E i \in 1..Len(messages) :
          /\ messages[i].quote.k = "quote"
          /\ messages[i].quote.text.s = Q_60
          /\ Len(ShownPreview(i)) = 53
          /\ SubSeq(ShownPreview(i), 51, 53) = S_dots

(***************************************************************************)
(* Reading a JSON document back, as json.load does                         *)
(***************************************************************************)
\* a decoded object, its keys in document order, and a decoded array
JObj(keys, vals) == [k |-> "object", keys |-> keys, vals |-> vals]
JArr(items) == [k |-> "array", items |-> items]

\* the value of a key of a decoded object
ObjGet(o, key) == o.vals[CHOOSE j \in 1..Len(o.keys) : o.keys[j] = key]

ObjKeys(o) == {o.keys[j] : j \in 1..Len(o.keys)}

\* the first position from p on at which Stop holds, or the position after
\* the text when there is none
FirstFrom(s, p, Stop(_)) ==
    CHOOSE q \in p..(Len(s) + 1) :
        /\ q = Len(s) + 1 \/ Stop(s[q])
        /\ \A r \in p..(q - 1) : ~Stop(s[r])

\* the first position from p on that holds no white space
SkipWs(s, p) == FirstFrom(s, p, LAMBDA c : c \notin {" ", "\n", "\t", "\r"})

\* the character an escape stands for
Unescape(c) ==
    CASE c = "n" -> "\n"
      [] c = "r" -> "\r"
      [] c = "t" -> "\t"
      [] OTHER   -> c

RECURSIVE ScanString(_, _)
\* the string whose characters start at p, up to the closing quote, and the
\* position after that quote
ScanString(s, p) ==
    LET q == FirstFrom(s, p, LAMBDA c : c \in {"\"", "\\"}) IN
    IF s[q] = "\"" THEN [v |-> SubSeq(s, p, q - 1), p |-> q + 1]
    ELSE LET rest == ScanString(s, q + 2)
         IN  [v |-> SubSeq(s, p, q - 1) \o <<Unescape(s[q + 1])>> \o rest.v, p |-> rest.p]

\* the str that starts with the quote at p
ReadString(s, p) == LET str == ScanString(s, p + 1) IN [v |-> PyStr(str.v), p |-> str.p]

\* the first position from p on that holds no digit
ScanDigits(s, p) == FirstFrom(s, p, LAMBDA c : ~IsDigit(c))

\* the word w stands at p
StartsWith(s, p, w) == p + Len(w) - 1 <= Len(s) /\ SubSeq(s, p, p + Len(w) - 1) = w

RECURSIVE ReadValue(_, _)
RECURSIVE ReadMembers(_, _, _, _)
RECURSIVE ReadItems(_, _, _)
\* the value that starts at or after p, and the position after it
ReadValue(s, p0) ==
    LET p == SkipWs(s, p0) IN
    CASE s[p] = "\"" -> ReadString(s, p)
      [] s[p] = "{" ->
            LET q == SkipWs(s, p + 1) IN
            IF s[q] = "}" THEN [v |-> JObj(<<>>, <<>>), p |-> q + 1]
            ELSE ReadMembers(s, q, <<>>, <<>>)
      [] s[p] = "[" ->
            LET q == SkipWs(s, p + 1) IN
            IF s[q] = "]" THEN [v |-> JArr(<<>>), p |-> q + 1]
            ELSE ReadItems(s, q, <<>>)
      [] StartsWith(s, p, J_null) -> [v |-> PyNone, p |-> p + 4]
      [] StartsWith(s, p, J_true) -> [v |-> PyBool(TRUE), p |-> p + 4]
      [] StartsWith(s, p, J_false) -> [v |-> PyBool(FALSE), p |-> p + 5]
      [] IsDigit(s[p]) ->
            LET q == ScanDigits(s, p) IN [v |-> PyInt(Num(SubSeq(s, p, q - 1))), p |-> q]

\* the members of an object from the key at p on
ReadMembers(s, p, keys, vals) ==
    LET key   == ReadString(s, p)
        colon == SkipWs(s, key.p)
        val   == ReadValue(s, colon + 1)
        q     == SkipWs(s, val.p)
    IN  IF s[q] = ","
        THEN ReadMembers(s, SkipWs(s, q + 1), Append(keys, key.v.s), Append(vals, val.v))
        ELSE [v |-> JObj(Append(keys, key.v.s), Append(vals, val.v)), p |-> q + 1]

\* the items of an array from the item at p on
ReadItems(s, p, items) ==
    LET val == ReadValue(s, p)
        q   == SkipWs(s, val.p)
    IN  IF s[q] = ","
        THEN ReadItems(s, q + 1, Append(items, val.v))
        ELSE [v |-> JArr(Append(items, val.v)), p |-> q + 1]

\* json.load of a document
json_load(text) == ReadValue(text, 1).v

MessageKeys ==
    {K_id, K_timestamp, K_timestamp_raw, K_sent, K_sender, K_text, K_deleted,
     K_edited, K_content_type, K_quote}

\* the decoded quote equals the Quote of the message, text in full
SameQuote(o, quote) ==
    IF quote.k = "none" THEN o = PyNone
    ELSE /\ o.k = "object"
         /\ Len(o.keys) = 2
         /\ ObjKeys(o) = {K_text, K_sent_by_me}
         /\ ObjGet(o, K_text) = quote.text
         /\ ObjGet(o, K_sent_by_me) = PyBool(quote.sent_by_me)

\* the decoded object equals the Message in every field
SameMessage(o, msg) ==
    /\ o.k = "object"
    /\ Len(o.keys) = 10
    /\ ObjKeys(o) = MessageKeys
    /\ ObjGet(o, K_id) = PyInt(msg.id)
    /\ ObjGet(o, K_timestamp) = PyStr(msg.timestamp)
    /\ ObjGet(o, K_timestamp_raw) = msg.timestamp_raw
    /\ ObjGet(o, K_sent) = PyBool(msg.sent)
    /\ ObjGet(o, K_sender) = PyStr(msg.sender)
    /\ ObjGet(o, K_text) = PyStr(msg.text)
    /\ ObjGet(o, K_deleted) = PyBool(msg.deleted)
    /\ ObjGet(o, K_edited) = PyBool(msg.edited)
    /\ ObjGet(o, K_content_type) = msg.content_type
    /\ SameQuote(ObjGet(o, K_quote), msg.quote)

(***************************************************************************)
(* C12: the messages array of the json artifact, read back, has the length *)
(* and the order of the message sequence, each element equals its Message  *)
(* in all ten fields (the quote with its text in full), and                *)
(* meta.message_count is that length.                                      *)
(***************************************************************************)
C12_JsonRoundTrip ==
    file.fmt = "json" =>
        LET doc == json_load(file.content)
            arr == ObjGet(doc, K_messages)
        IN  /\ arr.k = "array"
            /\ Len(arr.items) = Len(messages)
            /\ \A i \in 1..Len(messages) : SameMessage(arr.items[i], messages[i])
            /\ ObjGet(ObjGet(doc, K_meta), K_message_count) = PyInt(Len(messages))

\* two messages were written and read back, one with a body of escapes and
\* one with a quote of 101 characters
C12_Witness ==
    /\ file.fmt = "json"
    /\ Len(messages) = 2
    /\ messages[1].text = S_escapes
    /\ messages[2].quote.k = "quote"
    /\ messages[2].quote.text = PyStr(Q_101)
    /\ LET arr == ObjGet(json_load(file.content), K_messages) IN
       /\ Len(arr.items) = 2
       /\ ObjGet(arr.items[1], K_text) = PyStr(S_escapes)
       /\ ObjGet(ObjGet(arr.items[2], K_quote), K_text) = PyStr(Q_101)

\* the five types rendered as a placeholder
MediaTypes == {S_image, S_file, S_voice, S_video, S_link}

\* the glyph of the icon table for a media type
TableIcon(content_type) == CONTENT_ICONS[content_type.s]

\* the body pieces of a block: what stands between the header (and the
\* quote) and the closing piece
Body(b) == SelectSeq(b, LAMBDA l : l.tpl \in {"deleted", "text", "media"})

\* the body lines the text format shows for a text of a type
PrefixedLines(msg) ==
    LET text_lines == Split(msg.text, "\n") IN
    [j \in 1..Len(text_lines) |->
        Line("text", <<IF msg.content_type.k = "str" /\ msg.content_type.s \in MediaTypes
                       THEN TableIcon(msg.content_type) \o <<" ">> ELSE <<>>,
                       text_lines[j]>>)]

(***************************************************************************)
(* C13 (as claimed; for a type outside the icon table the text renderer    *)
(* shows no glyph and the html renderer the page glyph): for every message *)
(* that is not deleted, in the txt and html artifacts, an empty text with  *)
(* a type among image, file, voice, video, link gives as body the glyph of *)
(* the icon table and the upper-cased type; a non-empty text gives the     *)
(* text as body and no placeholder, each line of the txt artifact prefixed *)
(* with the glyph when the type is a media type; and the text renderer and *)
(* the html renderer take the same branch and the same glyph for the       *)
(* message.                                                                *)
(***************************************************************************)
C13_MediaBody ==
    Rendered =>
        \A i \in 1..Len(messages) :
            ~messages[i].deleted =>
                LET msg  == messages[i]
                    body == Body(Block(file.content, file.fmt, i))
                    txt  == TxtContent(msg)
                    html == HtmlContent(msg)
                IN  /\ (msg.text = <<>> /\ msg.content_type.k = "str"
                            /\ msg.content_type.s \in MediaTypes) =>
                          body = <<Line("media", <<TableIcon(msg.content_type),
                                                   Upper(msg.content_type.s)>>)>>
                    /\ msg.text # <<>> =>
                          body = IF file.fmt = "txt" THEN PrefixedLines(msg)
                                 ELSE <<Line("text", <<EscapeEach(msg.text)>>)>>
                    /\ txt[1].tpl = html[1].tpl
                    /\ txt[1].tpl = "media" => txt[1].args[1] = html[1].args[1]

(***************************************************************************)
(* C14 (as claimed; export_txt and export_html raise on a quote text that  *)
(* is a number and on an empty body whose type is not a string): whatever  *)
(* Message _parse_message returned for the rows, each of export_txt,       *)
(* export_html and export_json runs to its end without raising and leaves  *)
(* its artifact written.                                                   *)
(***************************************************************************)
C14_RenderersAccept ==
    pc = "exported" => ~raised /\ file.fmt \in {"txt", "html", "json"}

\* the raw string without its fraction (everything from the first '.') or,
\* when it has none, without its Z suffix
SuffixCleaned(s) ==
    IF Contains(s, ".") THEN BeforeFirst(s, ".")
    ELSE IF s # <<>> /\ s[Len(s)] = "Z" THEN SubSeq(s, 1, Len(s) - 1)
    ELSE s

(***************************************************************************)
(* C15 (as claimed; the code removes every Z of a value without '.', not   *)
(* only a Z suffix): _format_timestamp returns the empty string for an     *)
(* empty or absent raw value; the raw string unchanged when it holds no    *)
(* 'T'; when it holds 'T', the form "YYYY-MM-DD HH:MM:SS" of the value     *)
(* without its fraction or its Z suffix if that cleaned value parses as an *)
(* ISO date-time, and the raw string unchanged if it does not.             *)
(***************************************************************************)
C15_FormatTimestamp ==
    pc \in {"loaded", "exported"} =>
        \A i \in 1..Len(messages) :
            LET raw == db_rows[i].item_ts
                ts  == messages[i].timestamp
            IN  IF RawAbsent(raw) THEN ts = <<>>
                ELSE IF ~Contains(Str(raw), "T") THEN ts = Str(raw)
                ELSE LET dt == fromisoformat(SuffixCleaned(Str(raw)))
                     IN  ts = IF dt.ok THEN strftime(dt) ELSE Str(raw)

\* the characters of the raw timestamps, in code point order
CharOrder == <<" ", "-", ".", "/", "0", "1", "2", "3", "4", "5", "6", "7", "8", "9",
               ":", "T", "Z", "a", "n">>

CharRank(c) == CHOOSE r \in 1..Len(CharOrder) : CharOrder[r] = c

RECURSIVE TextLeq(_, _)
\* a <= b for two texts, as the ORDER BY of the query compares them
TextLeq(a, b) ==
    IF a = <<>> THEN TRUE
    ELSE IF b = <<>> THEN FALSE
    ELSE IF Head(a) = Head(b) THEN TextLeq(Tail(a), Tail(b))
    ELSE CharRank(Head(a)) < CharRank(Head(b))

\* the raw timestamps of a sequence of rows or of Messages are texts in
\* ascending order
Ascending(raws) ==
    /\ \A i \in 1..Len(raws) : raws[i].k = "str"
    /\ \A i \in 1..(Len(raws) - 1) : TextLeq(raws[i].s, raws[i + 1].s)

\* the strictly increasing maps from the positions of the Messages to the
\* positions of the rows that carry each Message to a row of its id
Embeddings ==
    {f \in [1..Len(messages) -> 1..Len(db_rows)] :
        /\ \A j \in 1..Len(messages) : db_rows[f[j]].chat_item_id = messages[j].id
        /\ \A j \in 1..(Len(messages) - 1) : f[j] < f[j + 1]}

(***************************************************************************)
(* C16: the ids of the Messages returned by get_contact_messages and       *)
(* get_group_messages are a subsequence of the ids of the fetched rows, in *)
(* the order of the rows: nothing is sorted, no row gives two Messages, no *)
(* Message is repeated; so rows ascending by raw timestamp give Messages   *)
(* ascending by timestamp_raw.                                             *)
(***************************************************************************)
C16_NeverReorders ==
    pc \in {"loaded", "exported"} =>
        /\ Embeddings # {}
        /\ \A j, l \in 1..Len(messages) : j # l => messages[j].id # messages[l].id
        /\ Ascending([i \in 1..Len(db_rows) |-> db_rows[i].item_ts])
              => Ascending([j \in 1..Len(messages) |-> messages[j].timestamp_raw])

\* three rows of two days, ascending, came back as three Messages in that order
C16_Witness ==
    /\ pc = "loaded"
    /\ Len(db_rows) = 3
    /\ db_rows[1].item_ts = PyStr(D_0101 \o <<" ">> \o T_1000)
    /\ db_rows[2].item_ts = PyStr(D_0101 \o <<"T">> \o T_0900)
    /\ db_rows[3].item_ts = PyStr(D_0102 \o <<" ">> \o T_0800)
    /\ Ascending([i \in 1..Len(db_rows) |-> db_rows[i].item_ts])
    /\ [j \in 1..Len(messages) |-> messages[j].id] = <<1, 2, 3>>
    /\ [j \in 1..Len(messages) |-> messages[j].timestamp_raw]
           = [i \in 1..Len(db_rows) |-> db_rows[i].item_ts]

====
